---- MODULE Spec2Model ----
(***************************************************************************)
(* ArtificialRetina (src/unnamed/part_000): the frame loop                 *)
(* process_visual_field and the temporal tracker calculate_dynamics.       *)
(*                                                                         *)
(* OpenCV's image operators are outside the program: a grayscale frame is  *)
(* an opaque value, and the contours findContours returns are an input of  *)
(* the cycle, each with its contourArea and its boundingRect.              *)
(* time.time() is the wall clock: a read returns a tick that may be later  *)
(* than, equal to or earlier than the previous read.                       *)
(***************************************************************************)
EXTENDS Integers, Sequences, FiniteSets, TLC

VARIABLES
    avg_frame,          \* self.avg_frame: None, or <<seed frame, number of blends>>
    position_history,   \* self.position_history, oldest first
    area_history,       \* self.area_history, oldest first
    prev_time,          \* self.prev_time
    shape,              \* frame.shape as <<width, height>>, fixed by the capture device
    frames_left,        \* frames the capture device still delivers
    pc,                 \* position in process_visual_field
    gray,               \* local gray: the content of the acquired frame
    contours,           \* local contours of the running iteration
    focus_cnt,          \* local focus_cnt: index into contours, 0 for None
    box,                \* locals <<X, Y, W, H>>, None when there is no focus
    center_point,       \* local center_point
    object_area,        \* local object_area
    dt,                 \* local dt of the last calculate_dynamics call
    speed,              \* local speed
    motion_state,       \* local motion_state
    is_danger,          \* local is_danger
    ret,                \* local ret of the last cap.read()
    stop,               \* the last waitKey saw 'q'
    displayed,          \* history variable: output frames shown so far
    key_checks,         \* history variable: waitKey calls so far
    last_cycle,         \* history variable: how the iteration before the
                        \* running one ended: "none", "seed", "track", "forget"
    streak,             \* history variable: <<n, center, area, dt>>, the last n
                        \* tracker calls had this center, area and non-zero dt
    appended,           \* history variable: appends since the buffers were last
                        \* empty, counted up to HISTORY_LEN + 1
    forgot              \* history variable: samples the clearing of this
                        \* iteration threw away

vars == <<avg_frame, position_history, area_history, prev_time, shape,
          frames_left, pc, contours, focus_cnt, box, center_point,
          object_area, dt, speed, motion_state, streak, appended, forgot,
          gray, is_danger, ret, stop, displayed, key_checks, last_cycle>>

tracker == <<position_history, area_history, prev_time>>
locals == <<gray, contours, focus_cnt, box, center_point, object_area, dt,
            speed, motion_state, is_danger, forgot>>
history == <<streak, appended>>
console == <<stop, displayed, key_checks>>

----------------------------------------------------------------------------
(* Configuration, ArtificialRetina.__init__ *)

RETINA_W == 320
RETINA_H == 240
MIN_AREA == 800
HISTORY_LEN == 5
LOOM_DELTA == 50
PIXEL_TO_METER_DEN == 20
SPEED_LIMIT == 50

(* Bounds of the model *)
MaxFrames == 7
MaxTime == 1
MaxContours == 2
MaxUnitTime == 5
MaxStep == 1
MaxFairFrames == 2
TicksPerSecond == 10

None == <<>>
NoState == "-"
NoGray == "-"
Times == 0..MaxTime
UnitTimes == 0..MaxUnitTime
UnitClock(pt) == {t \in UnitTimes : t - pt <= MaxStep /\ pt - t <= MaxStep}

(* Frame contents (opaque) and the frame size of the capture device *)
Grays == {"dark", "bright"}
Shapes == {<<640, 480>>}

(* Contours: contourArea and boundingRect <<x, y, w, h>> in retina         *)
(* coordinates; a contour's area never exceeds its bounding rectangle.     *)
RectA == <<0, 0, 80, 80>>
RectB == <<160, 80, 128, 80>>
Comps == {[area |-> 799, rect |-> RectA], [area |-> 800, rect |-> RectA],
          [area |-> 801, rect |-> RectA], [area |-> 1200, rect |-> RectB]}

RECURSIVE SeqsUpTo(_, _)
SeqsUpTo(S, n) ==
    IF n = 0 THEN {<<>>}
    ELSE LET shorter == SeqsUpTo(S, n - 1)
         IN  shorter \cup {Append(s, x) : s \in {t \in shorter : Len(t) = n - 1}, x \in S}

ContourLists == SeqsUpTo(Comps, MaxContours)

----------------------------------------------------------------------------
(* collections.deque(maxlen=HISTORY_LEN) *)

DequeAppendNoEvict(h, x) == Append(h, x)

DequeAppendDropNewest(h, x) ==
    IF Len(h) < HISTORY_LEN THEN Append(h, x)
    ELSE Append(SubSeq(h, 1, Len(h) - 1), x)

DequeAppend(h, x) ==
    IF Len(h) < HISTORY_LEN THEN Append(h, x) ELSE Append(Tail(h), x)

DequeClearOldest(h) == IF h = <<>> THEN h ELSE Tail(h)

DequeClear(h) == <<>>

----------------------------------------------------------------------------
(* calculate_dynamics *)

RECURSIVE SumSeq(_)
SumSeq(s) == IF s = <<>> THEN 0 ELSE Head(s) + SumSeq(Tail(s))

(* A speed is the pair <<d2, den>> standing for                            *)
(* sqrt(d2) * PIXEL_TO_METER_METRIC / den, with d2 the squared pixel       *)
(* distance and den = dt * len(position_history) in clock ticks.           *)
ZeroSpeed == <<0, 1>>

LateralSpeed(ph, d) ==
    LET start_pos == ph[1]
        curr_pos == ph[Len(ph)]
        dx == curr_pos[1] - start_pos[1]
        dy == curr_pos[2] - start_pos[2]
    IN  <<dx * dx + dy * dy, d * Len(ph)>>

SpeedIsZero(s) == s[1] = 0
SpeedNonNegative(s) == s[1] = 0 \/ s[2] > 0

(* speed > limit: sqrt(d2) / PIXEL_TO_METER_DEN / (den / TicksPerSecond)   *)
(* against limit, both sides squared; a speed with den < 0 is not positive *)
SpeedAbove(s, limit) ==
    /\ s[2] > 0
    /\ s[1] * TicksPerSecond * TicksPerSecond >
          (limit * PIXEL_TO_METER_DEN * s[2]) * (limit * PIXEL_TO_METER_DEN * s[2])

(* area_delta = area - mean(past) compared with the thresholds, both sides *)
(* multiplied by the number of past samples.                               *)
LoomingStateInclusive(area, past) ==
    LET n == Len(past)
        delta_n == area * n - SumSeq(past)
    IN  IF delta_n >= LOOM_DELTA * n THEN "APPROACHING !!!"
        ELSE IF delta_n <= (0 - LOOM_DELTA) * n THEN "Receding"
        ELSE "Stationary"

LoomingState(area, past) ==
    LET n == Len(past)
        delta_n == area * n - SumSeq(past)
    IN  IF delta_n > LOOM_DELTA * n THEN "APPROACHING !!!"
        ELSE IF delta_n < (0 - LOOM_DELTA) * n THEN "Receding"
        ELSE "Stationary"

CalculateDynamicsAppendFirst(ph, ah, pt, center, area, now) ==
    LET d == now - pt
        ph2 == DequeAppend(ph, center)
        ah2 == DequeAppend(ah, area)
    IN  IF d = 0
        THEN [ph |-> ph2, ah |-> ah2, pt |-> now, dt |-> d,
              speed |-> ZeroSpeed, state |-> "Static"]
        ELSE IF Len(ph2) < 2
        THEN [ph |-> ph2, ah |-> ah2, pt |-> now, dt |-> d,
              speed |-> ZeroSpeed, state |-> "Analyzing..."]
        ELSE [ph |-> ph2, ah |-> ah2, pt |-> now, dt |-> d,
              speed |-> LateralSpeed(ph2, d),
              state |-> LoomingState(area, SubSeq(ah2, 1, Len(ah2) - 1))]

CalculateDynamicsNeedThree(ph, ah, pt, center, area, now) ==
    LET d == now - pt
        ph2 == DequeAppend(ph, center)
        ah2 == DequeAppend(ah, area)
    IN  IF d = 0
        THEN [ph |-> ph, ah |-> ah, pt |-> now, dt |-> d,
              speed |-> ZeroSpeed, state |-> "Static"]
        ELSE IF Len(ph2) < 3
        THEN [ph |-> ph2, ah |-> ah2, pt |-> now, dt |-> d,
              speed |-> ZeroSpeed, state |-> "Analyzing..."]
        ELSE [ph |-> ph2, ah |-> ah2, pt |-> now, dt |-> d,
              speed |-> LateralSpeed(ph2, d),
              state |-> LoomingState(area, SubSeq(ah2, 1, Len(ah2) - 1))]

CalculateDynamicsNoGuard(ph, ah, pt, center, area, now) ==
    LET d == now - pt
        ph2 == DequeAppend(ph, center)
        ah2 == DequeAppend(ah, area)
    IN  IF Len(ph2) < 2
        THEN [ph |-> ph2, ah |-> ah2, pt |-> now, dt |-> d,
              speed |-> ZeroSpeed, state |-> "Analyzing..."]
        ELSE [ph |-> ph2, ah |-> ah2, pt |-> now, dt |-> d,
              speed |-> LateralSpeed(ph2, d),
              state |-> LoomingState(area, SubSeq(ah2, 1, Len(ah2) - 1))]

CalculateDynamics(ph, ah, pt, center, area, now) ==
    LET d == now - pt
        ph2 == DequeAppend(ph, center)
        ah2 == DequeAppend(ah, area)
    IN  IF d = 0
        THEN [ph |-> ph, ah |-> ah, pt |-> now, dt |-> d,
              speed |-> ZeroSpeed, state |-> "Static"]
        ELSE IF Len(ph2) < 2
        THEN [ph |-> ph2, ah |-> ah2, pt |-> now, dt |-> d,
              speed |-> ZeroSpeed, state |-> "Analyzing..."]
        ELSE [ph |-> ph2, ah |-> ah2, pt |-> now, dt |-> d,
              speed |-> LateralSpeed(ph2, d),
              state |-> LoomingState(area, SubSeq(ah2, 1, Len(ah2) - 1))]

(* The run of identical calls ending with a call (center, area, d) *)
NoStreak == <<0, None, 0, 0>>

StreakAfter(st, center, area, d) ==
    IF d = 0 THEN NoStreak
    ELSE IF st[1] > 0 /\ st[2] = center /\ st[3] = area /\ st[4] = d
    THEN <<IF st[1] < HISTORY_LEN THEN st[1] + 1 ELSE HISTORY_LEN, center, area, d>>
    ELSE <<1, center, area, d>>

(* Appends since the buffers were last empty, after a call with delta d *)
AppendedAfter(n, d) ==
    IF d = 0 THEN n ELSE IF n <= HISTORY_LEN THEN n + 1 ELSE n

----------------------------------------------------------------------------
(* process_visual_field: focus of attention and coordinate mapping *)

PassesFilter(c) == c.area > MIN_AREA

RECURSIVE FocusScanFirst(_, _, _, _)
FocusScanFirst(cs, i, max_area, focus) ==
    IF i > Len(cs) THEN focus
    ELSE IF PassesFilter(cs[i]) /\ focus = 0
         THEN FocusScanFirst(cs, i + 1, cs[i].area, i)
         ELSE FocusScanFirst(cs, i + 1, max_area, focus)

RECURSIVE FocusScan(_, _, _, _)
FocusScan(cs, i, max_area, focus) ==
    IF i > Len(cs) THEN focus
    ELSE IF PassesFilter(cs[i]) /\ cs[i].area > max_area
         THEN FocusScan(cs, i + 1, cs[i].area, i)
         ELSE FocusScan(cs, i + 1, max_area, focus)

SelectFocus(cs) == FocusScan(cs, 1, 0, 0)

(* Python floats are IEEE 754 binary64: 53 significant bits, every result  *)
(* rounded to nearest, ties to even.  A float is <<a, b, c, k>>, standing  *)
(* for (a * LIMB^2 + b * LIMB + c) * 2^(k - 52) with three 18-bit limbs;   *)
(* TLC's integers have 32 bits.  Frame sides below 5000 and coordinates up *)
(* to 320 keep every intermediate value below 2^31.                        *)
MANT_DIG == 53
LIMB == 262144

RECURSIVE Pow2(_)
Pow2(n) == IF n = 0 THEN 1 ELSE 2 * Pow2(n - 1)

RECURSIVE BitLength(_)
BitLength(n) == IF n = 0 THEN 0 ELSE 1 + BitLength(n \div 2)

Carry(a, b, c) ==
    <<a + (b + c \div LIMB) \div LIMB, (b + c \div LIMB) % LIMB, c % LIMB>>

(* n / d brought into [1, 2): <<n0, d0, k>> with n / d = (n0 / d0) * 2^k *)
RECURSIVE Normalize(_, _, _)
Normalize(n, d, k) ==
    IF n >= 2 * d THEN Normalize(n, 2 * d, k + 1)
    ELSE IF n < d THEN Normalize(2 * n, d, k - 1)
    ELSE <<n, d, k>>

(* int / int, n > 0 and d > 0: the quotient by long division, limb by     *)
(* limb, rounded on the remainder                                          *)
TrueDivide(n, d) ==
    LET nd == Normalize(n, d, 0)
        n0 == nd[1]
        d0 == nd[2]
        t0 == n0 * Pow2(MANT_DIG - 1 - 36)
        t1 == (t0 % d0) * LIMB
        t2 == (t1 % d0) * LIMB
        c == t2 \div d0
        r == t2 % d0
        up == 2 * r > d0 \/ (2 * r = d0 /\ c % 2 = 1)
        m == Carry(t0 \div d0, t1 \div d0, IF up THEN c + 1 ELSE c)
    IN  <<m[1], m[2], m[3], nd[3]>>

(* int * float, x >= 0: the exact product, rounded to MANT_DIG bits *)
MulFloat(x, f) ==
    LET p == Carry(x * f[1], x * f[2], x * f[3])
        drop == 36 + BitLength(p[1]) - MANT_DIG
    IN  IF drop <= 0 THEN <<p[1], p[2], p[3], f[4]>>
        ELSE LET low == p[3] % Pow2(drop)
                 half == Pow2(drop - 1)
                 odd == (p[3] \div Pow2(drop)) % 2 = 1
                 up == low > half \/ (low = half /\ odd)
                 m == Carry(p[1], p[2],
                            p[3] - low + (IF up THEN Pow2(drop) ELSE 0))
             IN  <<m[1], m[2], m[3], f[4]>>

(* int(f), 0 <= f < 2^31: the limbs b and c are below the binary point *)
IntOfFloat(f) == f[1] \div Pow2(MANT_DIG - 1 - 36 - f[4])

(* lines 130-133; sh is <<frame.shape[1], frame.shape[0]>> *)
ScaleBox(r, sh) ==
    LET scale_x == TrueDivide(sh[1], RETINA_W)
        scale_y == TrueDivide(sh[2], RETINA_H)
    IN  <<IntOfFloat(MulFloat(r[1], scale_x)), IntOfFloat(MulFloat(r[2], scale_y)),
          IntOfFloat(MulFloat(r[3], scale_x)), IntOfFloat(MulFloat(r[4], scale_y))>>

(* Bounding rectangles and frame sizes the mapping is examined on *)
MapRects == {<<x, y, w, h>> : x \in {0, 10, 25, 90}, y \in {0, 10, 45},
                              w \in {1, 20, 25}, h \in {20, 45}}
MapShapes == {<<640, 480>>, <<640, 240>>, <<3264, 2448>>}

(* the mapping of the rectangles of the model, computed once *)
MapTable ==
    [p \in {c.rect : c \in Comps} \X Shapes |-> ScaleBox(p[1], p[2])] @@
    [p \in MapRects \X MapShapes |-> ScaleBox(p[1], p[2])]

MapBox(r, sh) == MapTable[<<r, sh>>]

CenterOf(b) == <<b[1] + b[3] \div 2, b[2] + b[4] \div 2>>
AreaOf(b) == b[3] * b[4]

(* "APPROACHING" in motion_state, over the strings calculate_dynamics returns *)
MentionsApproaching(state) == state = "APPROACHING !!!"

IsDangerBoth(s, state) ==
    SpeedAbove(s, SPEED_LIMIT) /\ MentionsApproaching(state)

IsDanger(s, state) ==
    SpeedAbove(s, SPEED_LIMIT) \/ MentionsApproaching(state)

NoLocals ==
    /\ gray' = NoGray
    /\ is_danger' = FALSE
    /\ forgot' = 0
    /\ contours' = <<>>
    /\ focus_cnt' = 0
    /\ box' = None
    /\ center_point' = None
    /\ object_area' = 0
    /\ dt' = 0
    /\ speed' = ZeroSpeed
    /\ motion_state' = NoState

----------------------------------------------------------------------------
(* The program *)

(* the object after __init__, at the top of the loop *)
Constructed ==
    /\ avg_frame = None
    /\ position_history = <<>>
    /\ area_history = <<>>
    /\ prev_time \in Times
    /\ shape \in Shapes
    /\ pc = "read"
    /\ contours = <<>>
    /\ focus_cnt = 0
    /\ box = None
    /\ center_point = None
    /\ object_area = 0
    /\ dt = 0
    /\ speed = ZeroSpeed
    /\ motion_state = NoState
    /\ streak = NoStreak
    /\ appended = 0
    /\ forgot = 0
    /\ gray = NoGray
    /\ is_danger = FALSE
    /\ ret = FALSE
    /\ stop = FALSE
    /\ displayed = 0
    /\ key_checks = 0
    /\ last_cycle = "none"

Init ==
    /\ Constructed
    /\ frames_left = MaxFrames

(* cap.read() fails or the stream has ended: break *)
ReadFailContinue ==
    /\ pc = "read"
    /\ pc' = "read"
    /\ ret' = FALSE
    /\ UNCHANGED <<avg_frame, tracker, shape, frames_left, locals, history,
                   console, last_cycle>>

ReadFail ==
    /\ pc = "read"
    /\ pc' = "done"
    /\ ret' = FALSE
    /\ UNCHANGED <<avg_frame, tracker, shape, frames_left, locals, history,
                   console, last_cycle>>

(* first frame: the background is seeded and the iteration ends (continue) *)
SeedNoContinue ==
    /\ pc = "read"
    /\ frames_left > 0
    /\ avg_frame = None
    /\ \E g \in Grays, cs \in ContourLists :
          /\ gray' = g
          /\ avg_frame' = <<g, 0>>
          /\ contours' = cs
    /\ frames_left' = frames_left - 1
    /\ pc' = "cortex"
    /\ ret' = TRUE
    /\ UNCHANGED <<tracker, shape, focus_cnt, box, center_point, object_area,
                   dt, speed, motion_state, is_danger, forgot, history,
                   console, last_cycle>>

Seed ==
    /\ pc = "read"
    /\ frames_left > 0
    /\ avg_frame = None
    /\ \E g \in Grays :
          /\ gray' = g
          /\ avg_frame' = <<g, 0>>
    /\ frames_left' = frames_left - 1
    /\ pc' = "read"
    /\ ret' = TRUE
    /\ last_cycle' = "seed"
    /\ UNCHANGED <<tracker, shape, contours, focus_cnt, box, center_point,
                   object_area, dt, speed, motion_state, is_danger, forgot,
                   history, console>>

(* later frames: accumulateWeighted, absdiff, threshold, dilate, findContours *)
AdaptReseed ==
    /\ pc = "read"
    /\ frames_left > 0
    /\ avg_frame # None
    /\ \E g \in Grays, cs \in ContourLists :
          /\ gray' = g
          /\ avg_frame' = <<g, 0>>
          /\ contours' = cs
    /\ frames_left' = frames_left - 1
    /\ pc' = "cortex"
    /\ ret' = TRUE
    /\ UNCHANGED <<tracker, shape, focus_cnt, box, center_point, object_area,
                   dt, speed, motion_state, is_danger, forgot, history,
                   console, last_cycle>>

Adapt ==
    /\ pc = "read"
    /\ frames_left > 0
    /\ avg_frame # None
    /\ avg_frame' = <<avg_frame[1], avg_frame[2] + 1>>
    /\ \E g \in Grays, cs \in ContourLists :
          /\ gray' = g
          /\ contours' = cs
    /\ frames_left' = frames_left - 1
    /\ pc' = "cortex"
    /\ ret' = TRUE
    /\ UNCHANGED <<tracker, shape, focus_cnt, box, center_point, object_area,
                   dt, speed, motion_state, is_danger, forgot, history,
                   console, last_cycle>>

(* a focus was found: map it, run the tracker *)
Track ==
    /\ pc = "cortex"
    /\ SelectFocus(contours) # 0
    /\ \E now \in Times :
          LET f == SelectFocus(contours)
              b == MapBox(contours[f].rect, shape)
              r == CalculateDynamics(position_history, area_history, prev_time,
                                     CenterOf(b), AreaOf(b), now)
          IN  /\ focus_cnt' = f
              /\ box' = b
              /\ center_point' = CenterOf(b)
              /\ object_area' = AreaOf(b)
              /\ position_history' = r.ph
              /\ area_history' = r.ah
              /\ prev_time' = r.pt
              /\ dt' = r.dt
              /\ speed' = r.speed
              /\ motion_state' = r.state
              /\ streak' = StreakAfter(streak, CenterOf(b), AreaOf(b), r.dt)
              /\ appended' = AppendedAfter(appended, r.dt)
              /\ is_danger' = IsDanger(r.speed, r.state)
    /\ pc' = "show"
    /\ UNCHANGED <<avg_frame, shape, frames_left, gray, contours, forgot, ret,
                   console, last_cycle>>

(* no focus: the short term memory is cleared *)
Forget ==
    /\ pc = "cortex"
    /\ SelectFocus(contours) = 0
    /\ focus_cnt' = 0
    /\ position_history' = DequeClear(position_history)
    /\ area_history' = DequeClear(area_history)
    /\ streak' = NoStreak
    /\ appended' = 0
    /\ forgot' = Len(position_history)
    /\ pc' = "show"
    /\ UNCHANGED <<avg_frame, prev_time, shape, frames_left, gray, contours,
                   box, center_point, object_area, dt, speed, motion_state,
                   is_danger, ret, console, last_cycle>>

(* imshow of the output frame and of the ganglion layer *)
Show ==
    /\ pc = "show"
    /\ pc' = "key"
    /\ displayed' = displayed + 1
    /\ UNCHANGED <<avg_frame, tracker, shape, frames_left, locals, history,
                   ret, stop, key_checks, last_cycle>>

(* waitKey: 'q' breaks, anything else starts the next iteration, whose     *)
(* locals are all assigned before they are read                            *)
WaitKeyNoBreak ==
    /\ pc = "key"
    /\ \E q \in BOOLEAN : stop' = q
    /\ pc' = "read"
    /\ key_checks' = key_checks + 1
    /\ last_cycle' = IF focus_cnt # 0 THEN "track" ELSE "forget"
    /\ NoLocals
    /\ UNCHANGED <<avg_frame, tracker, shape, frames_left, history, ret,
                   displayed>>

WaitKey ==
    /\ pc = "key"
    /\ \E q \in BOOLEAN :
          /\ stop' = q
          /\ pc' = IF q THEN "done" ELSE "read"
    /\ key_checks' = key_checks + 1
    /\ last_cycle' = IF focus_cnt # 0 THEN "track" ELSE "forget"
    /\ NoLocals
    /\ UNCHANGED <<avg_frame, tracker, shape, frames_left, history, ret,
                   displayed>>

Next ==
    \/ ReadFail
    \/ Seed
    \/ Adapt
    \/ Track
    \/ Forget
    \/ Show
    \/ WaitKey

Spec == Init /\ [][Next]_vars

(* The loop is sequential and no call blocks for ever on a finite stream:  *)
(* a step that can be taken is taken.                                      *)
FairInit ==
    /\ Constructed
    /\ frames_left = MaxFairFrames

SpecFair == FairInit /\ [][Next]_vars /\ WF_vars(Next)

----------------------------------------------------------------------------
(* The tracker on its own: calculate_dynamics called with any center, area *)
(* and clock reading, and the clearing of both buffers (lines 164-165).    *)

UnitCenterA == <<5, 5>>
UnitCenterB == <<8, 9>>
UnitSamples == {<<UnitCenterA, 100>>, <<UnitCenterA, 120>>,
                <<UnitCenterA, 160>>, <<UnitCenterB, 40>>}

UnitInit ==
    /\ avg_frame = None
    /\ position_history = <<>>
    /\ area_history = <<>>
    /\ prev_time \in UnitTimes
    /\ shape = <<RETINA_W, RETINA_H>>
    /\ frames_left = 0
    /\ pc = "unit"
    /\ contours = <<>>
    /\ focus_cnt = 0
    /\ box = None
    /\ center_point = None
    /\ object_area = 0
    /\ dt = 0
    /\ speed = ZeroSpeed
    /\ motion_state = NoState
    /\ streak = NoStreak
    /\ appended = 0
    /\ forgot = 0
    /\ gray = NoGray
    /\ is_danger = FALSE
    /\ ret = FALSE
    /\ stop = FALSE
    /\ displayed = 0
    /\ key_checks = 0
    /\ last_cycle = "none"

Update ==
    /\ pc = "unit"
    /\ \E s \in UnitSamples, now \in UnitClock(prev_time) :
          LET r == CalculateDynamics(position_history, area_history, prev_time,
                                     s[1], s[2], now)
          IN  /\ center_point' = s[1]
              /\ object_area' = s[2]
              /\ position_history' = r.ph
              /\ area_history' = r.ah
              /\ prev_time' = r.pt
              /\ dt' = r.dt
              /\ speed' = r.speed
              /\ motion_state' = r.state
              /\ streak' = StreakAfter(streak, s[1], s[2], r.dt)
              /\ appended' = AppendedAfter(appended, r.dt)
    /\ UNCHANGED <<avg_frame, shape, frames_left, pc, gray, contours,
                   focus_cnt, box, forgot, is_danger, ret, console, last_cycle>>

Clear ==
    /\ pc = "unit"
    /\ position_history' = DequeClear(position_history)
    /\ area_history' = DequeClear(area_history)
    /\ streak' = NoStreak
    /\ appended' = 0
    /\ NoLocals
    /\ UNCHANGED <<avg_frame, prev_time, shape, frames_left, pc, ret, console,
                   last_cycle>>

UnitNext ==
    \/ Update
    \/ Clear

SpecUnit == UnitInit /\ [][UnitNext]_vars

----------------------------------------------------------------------------
(* The coordinate mapping on its own (lines 128-137): a focus with any     *)
(* bounding rectangle of MapRects in a frame of any size of MapShapes.     *)

MapInit ==
    /\ avg_frame = None
    /\ position_history = <<>>
    /\ area_history = <<>>
    /\ prev_time = 0
    /\ shape \in MapShapes
    /\ frames_left = 0
    /\ pc = "map"
    /\ contours = <<>>
    /\ focus_cnt = 0
    /\ box = None
    /\ center_point = None
    /\ object_area = 0
    /\ dt = 0
    /\ speed = ZeroSpeed
    /\ motion_state = NoState
    /\ streak = NoStreak
    /\ appended = 0
    /\ forgot = 0
    /\ gray = NoGray
    /\ is_danger = FALSE
    /\ ret = FALSE
    /\ stop = FALSE
    /\ displayed = 0
    /\ key_checks = 0
    /\ last_cycle = "none"

MapFocus ==
    /\ pc = "map"
    /\ \E r \in MapRects, sh \in MapShapes :
          LET b == MapBox(r, sh)
          IN  /\ shape' = sh
              /\ contours' = <<[area |-> r[3] * r[4], rect |-> r]>>
              /\ focus_cnt' = 1
              /\ box' = b
              /\ center_point' = CenterOf(b)
              /\ object_area' = AreaOf(b)
    /\ UNCHANGED <<avg_frame, tracker, frames_left, pc, gray, dt, speed,
                   motion_state, is_danger, forgot, history, ret, console,
                   last_cycle>>

MapNext == MapFocus

SpecMap == MapInit /\ [][MapNext]_vars

----------------------------------------------------------------------------
(* Properties *)

(* the iteration has run the tracker and holds its estimate *)
EstimateReturned == pc \in {"show", "key"} /\ focus_cnt # 0

(* C1: after any sequence of cycles the position history and the area      *)
(* history each hold at most HISTORY_LEN entries.                          *)
C1_HistoryBounded ==
    /\ Len(position_history) <= HISTORY_LEN
    /\ Len(area_history) <= HISTORY_LEN

C1_Witness ==
    /\ EstimateReturned
    /\ appended > HISTORY_LEN
    /\ Len(position_history) = HISTORY_LEN
    /\ Len(area_history) = HISTORY_LEN

(* C2: a cycle that finds no focus ends with both histories empty,         *)
(* whatever they held before.                                              *)
C2_NoFocusClears ==
    (pc \in {"show", "key"} /\ focus_cnt = 0) =>
        (Len(position_history) = 0 /\ Len(area_history) = 0)

C2_Witness ==
    /\ pc = "key"
    /\ focus_cnt = 0
    /\ forgot = HISTORY_LEN
    /\ position_history = <<>>
    /\ area_history = <<>>

(* C3: the cycle that acquires the first frame seeds the background with   *)
(* that frame and does nothing else: no contours are extracted, no focus   *)
(* and no estimate are produced, the tracker is untouched, and the loop    *)
(* goes straight to the next read.                                         *)
C3_SeedingCycle ==
    [][(avg_frame = None /\ frames_left' < frames_left) =>
          /\ gray' \in Grays
          /\ avg_frame' = <<gray', 0>>
          /\ pc' = "read"
          /\ contours' = <<>>
          /\ focus_cnt' = 0
          /\ box' = None
          /\ motion_state' = NoState
          /\ UNCHANGED tracker]_vars

C3_Witness ==
    /\ pc = "read"
    /\ frames_left = MaxFrames - 1
    /\ gray \in Grays
    /\ avg_frame = <<gray, 0>>
    /\ position_history = <<>>
    /\ motion_state = NoState

(* C4: a tracker call whose clock reading equals the previous timestamp    *)
(* returns speed 0 and "Static" and leaves both histories as they were.    *)
C4_ZeroDt ==
    [][(pc = "cortex" /\ pc' = "show" /\ focus_cnt' # 0 /\ prev_time' = prev_time) =>
          /\ speed' = ZeroSpeed
          /\ motion_state' = "Static"
          /\ position_history' = position_history
          /\ area_history' = area_history]_vars

C4_Witness ==
    /\ EstimateReturned
    /\ dt = 0
    /\ motion_state = "Static"
    /\ speed = ZeroSpeed
    /\ Len(position_history) = HISTORY_LEN

(* C5 as stated: every returned looming state is one of Stationary,        *)
(* Approaching, Receding.                                                  *)
C5_ThreeStates ==
    EstimateReturned =>
        motion_state \in {"Stationary", "APPROACHING !!!", "Receding"}

(* C5 amended: every returned state is one of five values: "Static" exactly *)
(* when dt is 0, "Analyzing..." exactly when dt is not 0 and fewer than 2  *)
(* samples are buffered, and otherwise one of Stationary, Approaching,     *)
(* Receding.                                                               *)
C5_FiveStates ==
    EstimateReturned =>
        /\ motion_state \in {"Static", "Analyzing...", "Stationary",
                              "APPROACHING !!!", "Receding"}
        /\ (motion_state = "Static") <=> (dt = 0)
        /\ (motion_state = "Analyzing...") <=>
              (dt # 0 /\ Len(position_history) < 2)
        /\ (motion_state \in {"Stationary", "APPROACHING !!!", "Receding"}) <=>
              (dt # 0 /\ Len(position_history) >= 2)

C5_Witness ==
    /\ EstimateReturned
    /\ motion_state = "Analyzing..."
    /\ dt # 0
    /\ Len(position_history) = 1

(* C6: the returned speed is never negative, also when the clock reading   *)
(* is not later than the previous one.                                     *)
C6_SpeedNonNegative ==
    EstimateReturned => SpeedNonNegative(speed)

(* C7: with at least 2 buffered samples, area_delta is the current area    *)
(* minus the mean of the buffered areas without the newest; the state is   *)
(* Approaching iff area_delta > 50, Receding iff area_delta < -50, and     *)
(* Stationary otherwise; [100,100,100,100] then 160, 40, 120 give          *)
(* Approaching, Receding, Stationary.  (n * area_delta is compared with    *)
(* n * 50, n the number of past samples.)                                  *)
C7_Looming ==
    (motion_state # NoState /\ dt # 0 /\ Len(area_history) >= 2) =>
        LET n == Len(area_history) - 1
            n_delta == n * object_area - SumSeq(SubSeq(area_history, 1, n))
        IN  /\ (motion_state = "APPROACHING !!!") <=> (n_delta > n * 50)
            /\ (motion_state = "Receding") <=> (n_delta < n * (0 - 50))
            /\ (motion_state = "Stationary") <=>
                  (n_delta <= n * 50 /\ n_delta >= n * (0 - 50))
            /\ (area_history = <<100, 100, 100, 100, 160>>) =>
                  (motion_state = "APPROACHING !!!")
            /\ (area_history = <<100, 100, 100, 100, 40>>) =>
                  (motion_state = "Receding")
            /\ (area_history = <<100, 100, 100, 100, 120>>) =>
                  (motion_state = "Stationary")

C7_Witness ==
    /\ area_history = <<100, 100, 100, 100, 160>>
    /\ object_area = 160
    /\ dt # 0
    /\ motion_state = "APPROACHING !!!"

(* C8: the last of HISTORY_LEN consecutive tracker calls with the same     *)
(* center, the same area and the same non-zero dt returns speed 0 and      *)
(* Stationary, whatever the tracker held before.                           *)
C8_Idempotence ==
    (motion_state # NoState /\ streak[1] = HISTORY_LEN) =>
        (SpeedIsZero(speed) /\ motion_state = "Stationary")

C8_Witness ==
    /\ streak[1] = HISTORY_LEN
    /\ appended > HISTORY_LEN
    /\ SpeedIsZero(speed)
    /\ motion_state = "Stationary"

(* C9: exactly the components with an area below 800 are filtered out: a   *)
(* chosen focus has an area of at least 800, and a lone component is       *)
(* chosen iff its area is not below 800.                                   *)
C9_MinAreaFilter ==
    pc \in {"show", "key"} =>
        /\ focus_cnt # 0 => contours[focus_cnt].area >= 800
        /\ Len(contours) = 1 => (focus_cnt # 0 <=> contours[1].area >= 800)

(* C10: a focus is selected iff some component passes the minimum-area     *)
(* filter, and the focus is a passing component whose area is at least     *)
(* that of every other passing component.                                  *)
C10_LargestPassing ==
    pc \in {"show", "key"} =>
        LET passing == {i \in 1..Len(contours) : PassesFilter(contours[i])}
        IN  /\ (focus_cnt # 0) <=> (passing # {})
            /\ focus_cnt # 0 =>
                  /\ focus_cnt \in passing
                  /\ \A j \in passing :
                        contours[focus_cnt].area >= contours[j].area

C10_Witness ==
    /\ pc = "show"
    /\ Len(contours) = 2
    /\ contours[1].area = 801
    /\ contours[2].area = 1200
    /\ focus_cnt = 2

(* C11: the danger flag is true iff the returned speed is above 50 or the   *)
(* returned state is the approaching one; with the states returned on      *)
(* dt == 0 and on fewer than 2 samples the speed is 0 and the flag false.  *)
C11_DangerFlag ==
    EstimateReturned =>
        /\ is_danger <=> (SpeedAbove(speed, 50) \/ motion_state = "APPROACHING !!!")
        /\ motion_state \in {"Static", "Analyzing..."} =>
              (speed = ZeroSpeed /\ ~is_danger)

C11_Witness ==
    /\ EstimateReturned
    /\ is_danger
    /\ motion_state = "Receding"
    /\ SpeedAbove(speed, 50)

(* C12: a failed read (end of stream or device failure) ends the loop in   *)
(* that iteration, with the background, the tracker and the output left   *)
(* as they were; so on a finite stream the loop eventually terminates.    *)
C12_CleanTermination ==
    /\ [][(pc = "read" /\ ~ret') =>
            /\ pc' = "done"
            /\ UNCHANGED <<avg_frame, tracker, displayed, key_checks>>]_vars
    /\ <>(pc = "done")

C12_Witness ==
    /\ pc = "done"
    /\ ~ret
    /\ frames_left = 0
    /\ displayed = MaxFairFrames - 1
    /\ Len(position_history) = MaxFairFrames - 1

(* C13 as stated: every iteration that acquired a frame evaluates the stop *)
(* signal exactly once, after its display; a true signal ends the loop     *)
(* before the next read.                                                   *)
C13_EveryCycle ==
    /\ pc \in {"read", "done"} => key_checks = MaxFrames - frames_left
    /\ stop => pc = "done"

(* C13 amended: the iteration that seeds the background shows nothing and  *)
(* does not evaluate the stop signal; every later iteration that acquired  *)
(* a frame evaluates it exactly once, after its display, and a true signal *)
(* ends the loop before the next read.                                     *)
C13_AfterSeeding ==
    LET later == MaxFrames - frames_left - 1
    IN  /\ avg_frame = None => (key_checks = 0 /\ displayed = 0)
        /\ (avg_frame # None /\ pc \in {"read", "done"}) =>
              (key_checks = later /\ displayed = later)
        /\ (avg_frame # None /\ pc \in {"cortex", "show"}) =>
              (key_checks = later - 1 /\ displayed = later - 1)
        /\ (avg_frame # None /\ pc = "key") =>
              (key_checks = later - 1 /\ displayed = later)
        /\ stop => pc = "done"

C13_Witness ==
    /\ pc = "done"
    /\ stop
    /\ key_checks = 2
    /\ displayed = 2
    /\ frames_left = MaxFrames - 3

(* C14: each history is first-in-first-out.  It holds min(k, 5) samples    *)
(* after k appends since it was last empty, and an append puts the new     *)
(* sample last, keeps the samples before it in order, and drops the oldest *)
(* one exactly when five were held.                                        *)
C14_Fifo ==
    /\ [](/\ Len(position_history) =
               (IF appended < HISTORY_LEN THEN appended ELSE HISTORY_LEN)
          /\ Len(area_history) =
               (IF appended < HISTORY_LEN THEN appended ELSE HISTORY_LEN))
    /\ [][(pc = "cortex" /\ focus_cnt' # 0 /\ dt' # 0) =>
            /\ position_history' =
                  IF Len(position_history) < 5
                  THEN Append(position_history, center_point')
                  ELSE Append(SubSeq(position_history, 2, 5), center_point')
            /\ area_history' =
                  IF Len(area_history) < 5
                  THEN Append(area_history, object_area')
                  ELSE Append(SubSeq(area_history, 2, 5), object_area')]_vars

C14_Witness ==
    /\ EstimateReturned
    /\ dt # 0
    /\ appended > HISTORY_LEN
    /\ position_history[1] # position_history[HISTORY_LEN]
    /\ area_history[1] # area_history[HISTORY_LEN]
    /\ position_history[HISTORY_LEN] = center_point
    /\ area_history[HISTORY_LEN] = object_area

(* C16: the focus rectangle (x, y, w, h) of a frame fw wide and fh high is *)
(* mapped to (x * fw / 320, y * fh / 240, w * fw / 320, h * fh / 240),     *)
(* each truncated to an integer; in a 640x480 frame (10, 10, 20, 20) maps  *)
(* to (20, 20, 40, 40); the center is (X + W div 2, Y + H div 2) and the   *)
(* area W * H.                                                             *)
C16_Mapping ==
    (pc = "map" /\ focus_cnt # 0) =>
        LET r == contours[focus_cnt].rect
        IN  /\ box = <<(r[1] * shape[1]) \div 320, (r[2] * shape[2]) \div 240,
                       (r[3] * shape[1]) \div 320, (r[4] * shape[2]) \div 240>>
            /\ (shape = <<640, 480>> /\ r = <<10, 10, 20, 20>>) =>
                  box = <<20, 20, 40, 40>>
            /\ center_point = <<box[1] + box[3] \div 2, box[2] + box[4] \div 2>>
            /\ object_area = box[3] * box[4]

(* C17: the background is seeded by the first acquired frame and by no     *)
(* other: once set it is never unset and keeps its seed; every later       *)
(* iteration that acquires a frame blends it in exactly once, and has done *)
(* so when the contours are extracted and before the tracker is touched.   *)
C17_BackgroundOrder ==
    /\ [](/\ avg_frame = None <=> frames_left = MaxFrames
          /\ avg_frame # None => avg_frame[2] = MaxFrames - frames_left - 1)
    /\ [][
          /\ (avg_frame # None) =>
                (/\ avg_frame' # None
                 /\ avg_frame'[1] = avg_frame[1]
                 /\ (avg_frame'[2] # avg_frame[2]) =>
                       (/\ frames_left' = frames_left - 1
                        /\ avg_frame'[2] = avg_frame[2] + 1
                        /\ UNCHANGED tracker))
          /\ (contours' # contours /\ contours' # <<>>) =>
                (avg_frame # None /\ avg_frame'[2] = avg_frame[2] + 1)
          /\ (tracker' # tracker) =>
                (pc = "cortex" /\ avg_frame' = avg_frame)
       ]_vars

C17_Witness ==
    /\ pc = "show"
    /\ focus_cnt # 0
    /\ avg_frame # None
    /\ avg_frame[2] = 3
    /\ frames_left = MaxFrames - 4
    /\ Len(position_history) = 3

(* C18: when a speed is computed from 2 or more buffered samples, the      *)
(* iteration just before was a focus iteration, which stored its clock     *)
(* reading, and dt is the time from that reading to this one; only a focus *)
(* iteration stores a reading.                                             *)
C18_ConsecutiveDt ==
    /\ []((EstimateReturned /\ dt # 0 /\ Len(position_history) >= 2) =>
            last_cycle = "track")
    /\ [][
          /\ (pc = "cortex" /\ focus_cnt' # 0) => dt' = prev_time' - prev_time
          /\ (prev_time' # prev_time) => (pc = "cortex" /\ focus_cnt' # 0)
       ]_vars

C18_Witness ==
    /\ EstimateReturned
    /\ Len(position_history) >= 2
    /\ last_cycle = "track"
    /\ dt = 1
    /\ prev_time = 1
    /\ ~SpeedIsZero(speed)

(* C19: the histories hold only samples of the current unbroken run of     *)
(* focus iterations.  They are empty when an iteration that follows the    *)
(* seeding or a no-focus iteration looks for its focus, and the first      *)
(* focus iteration of a run holds at most its own sample and returns speed *)
(* 0 with "Analyzing..." or "Static" and no danger.                        *)
C19_NoStaleTrail ==
    /\ Len(position_history) <= appended
    /\ Len(area_history) <= appended
    /\ (pc = "cortex" /\ last_cycle \in {"seed", "forget"}) =>
          (position_history = <<>> /\ area_history = <<>>)
    /\ (EstimateReturned /\ last_cycle \in {"seed", "forget"}) =>
          /\ speed = ZeroSpeed
          /\ motion_state \in {"Analyzing...", "Static"}
          /\ ~is_danger
          /\ position_history \in {<<>>, <<center_point>>}
          /\ area_history \in {<<>>, <<object_area>>}

C19_Witness ==
    /\ EstimateReturned
    /\ last_cycle = "forget"
    /\ key_checks = 3
    /\ position_history = <<center_point>>
    /\ motion_state = "Analyzing..."

(* C20: the two histories always have the same length, and an estimate     *)
(* that went through the speed division and the mean of the past areas was *)
(* computed with a divisor dt * len(position_history) that is not 0 and    *)
(* with at least one past area.                                            *)
C20_NoDivisionByZero ==
    /\ Len(position_history) = Len(area_history)
    /\ (EstimateReturned /\
        motion_state \in {"Stationary", "APPROACHING !!!", "Receding"}) =>
          /\ speed[2] = dt * Len(position_history)
          /\ speed[2] # 0
          /\ Len(area_history) - 1 >= 1

C20_Witness ==
    /\ EstimateReturned
    /\ motion_state \in {"Stationary", "APPROACHING !!!", "Receding"}
    /\ Len(position_history) = 2
    /\ Len(area_history) = 2
    /\ dt = 0 - 1
    /\ speed[2] = 0 - 2

====
